---- MODULE Spec2Model ----
(***************************************************************************)
(* A model of convert_webp.py: the WebPConverter class (format_size,       *)
(* is_valid_image, convert_to_webp, batch_convert, _find_image_files),     *)
(* the argument parser and main().                                         *)
(*                                                                         *)
(* A file name is a sequence of one-character strings, a path a sequence   *)
(* of names (pathlib's parts).  The filesystem is a function from the      *)
(* paths that exist to what is there.  Elapsed times are whole ticks.      *)
(***************************************************************************)
EXTENDS Integers, Sequences, FiniteSets, TLC

\* Optional[Path] None: a path no file has (one empty name), so that it
\* compares with paths; the None of an Optional[str] is the empty string,
\* which str(path) never is.
None == << <<>> >>
NoResult == <<>>

(***************************************************************************)
(* Characters and names                                                    *)
(***************************************************************************)
UpperCase == <<"A","B","C","D","E","F","G","H","I","J","K","L","M",
               "N","O","P","Q","R","S","T","U","V","W","X","Y","Z">>
LowerCase == <<"a","b","c","d","e","f","g","h","i","j","k","l","m",
               "n","o","p","q","r","s","t","u","v","w","x","y","z">>

\* ord(c) for the characters that occur in the modelled names.
Ord(c) ==
    IF \E i \in 1..Len(UpperCase) : UpperCase[i] = c
    THEN 64 + (CHOOSE i \in 1..Len(UpperCase) : UpperCase[i] = c)
    ELSE IF \E i \in 1..Len(LowerCase) : LowerCase[i] = c
    THEN 96 + (CHOOSE i \in 1..Len(LowerCase) : LowerCase[i] = c)
    ELSE IF c = "-" THEN 45
    ELSE IF c = "." THEN 46
    ELSE IF c = "/" THEN 47
    ELSE 95

\* str.lower() on one character, then on a name.
LowerChar(c) ==
    IF \E i \in 1..Len(UpperCase) : UpperCase[i] = c
    THEN LowerCase[CHOOSE i \in 1..Len(UpperCase) : UpperCase[i] = c]
    ELSE c

Lower(s) == [i \in 1..Len(s) |-> LowerChar(s[i])]

\* Python's < on str: lexicographic by code point, a proper prefix first.
RECURSIVE StrLess(_, _)
StrLess(s, t) ==
    IF s = <<>> THEN t # <<>>
    ELSE IF t = <<>> THEN FALSE
    ELSE IF Ord(Head(s)) # Ord(Head(t)) THEN Ord(Head(s)) < Ord(Head(t))
    ELSE StrLess(Tail(s), Tail(t))

\* str.rfind('.'), 1-based, 0 when there is no dot.
RFindDot(name) ==
    IF \E i \in 1..Len(name) : name[i] = "."
    THEN CHOOSE i \in 1..Len(name) :
            /\ name[i] = "."
            /\ \A j \in (i+1)..Len(name) : name[j] # "."
    ELSE 0

\* PurePath.suffix and PurePath.stem of a name: the last dot counts only
\* when it is neither the first nor the last character.
Suffix(name) ==
    LET i == RFindDot(name)
    IN  IF 1 < i /\ i < Len(name) THEN SubSeq(name, i, Len(name)) ELSE <<>>

Stem(name) ==
    LET i == RFindDot(name)
    IN  IF 1 < i /\ i < Len(name) THEN SubSeq(name, 1, i - 1) ELSE name

(***************************************************************************)
(* Paths                                                                   *)
(***************************************************************************)
Name(p) == p[Len(p)]
Parent(p) == SubSeq(p, 1, Len(p) - 1)
Join(dir, name) == Append(dir, name)

\* Path.__lt__: the parts compared as lists of str.
RECURSIVE PathLess(_, _)
PathLess(p, q) ==
    IF p = <<>> THEN q # <<>>
    ELSE IF q = <<>> THEN FALSE
    ELSE IF Head(p) # Head(q) THEN StrLess(Head(p), Head(q))
    ELSE PathLess(Tail(p), Tail(q))

\* str(path): the parts joined by "/", "." for the empty path
RECURSIVE Str(_)
Str(p) ==
    IF p = <<>> THEN <<".">>
    ELSE IF Len(p) = 1 THEN p[1]
    ELSE p[1] \o <<"/">> \o Str(Tail(p))

IsPrefix(d, p) == Len(d) <= Len(p) /\ SubSeq(p, 1, Len(d)) = d

\* sorted(list of Path)
RECURSIVE Sorted(_)
Sorted(S) ==
    IF S = {} THEN <<>>
    ELSE LET m == CHOOSE x \in S : \A y \in S \ {x} : PathLess(x, y)
         IN  <<m>> \o Sorted(S \ {m})

(***************************************************************************)
(* format_size                                                             *)
(*                                                                         *)
(* A byte count is a little-endian sequence of base-1024 digits, so that   *)
(* counts up to the TB range stay within 32-bit integers.  The             *)
(* float `size` is exact for counts below 2^53 and division by 1024.0 is   *)
(* a shift of one digit: `int` holds the digits of the integer part        *)
(* (little-endian), `frac` those of the fraction (most significant first). *)
(***************************************************************************)
Base == 1024

units == <<"B", "KB", "MB", "GB", "TB">>

\* float(size_bytes)
ToFloat(digits) == [int |-> digits, frac |-> <<>>]

\* size >= 1024.0
AtLeastBase(size) == \E i \in 2..Len(size.int) : size.int[i] # 0

\* size /= 1024.0
DivBase(size) ==
    [int  |-> IF Len(size.int) <= 1 THEN <<0>> ELSE Tail(size.int),
     frac |-> IF size.int = <<>> THEN <<0>> \o size.frac
              ELSE <<Head(size.int)>> \o size.frac]

\* the loop condition of format_size
LoopCondCapsEarly(size, unit_index) ==
    AtLeastBase(size) /\ unit_index < Len(units) - 2
LoopCond(size, unit_index) ==
    AtLeastBase(size) /\ unit_index < Len(units) - 1

\* the while loop: unit_index counts from 0 as in the code
RECURSIVE ScaleLoop(_, _)
ScaleLoop(size, unit_index) ==
    IF LoopCond(size, unit_index)
    THEN ScaleLoop(DivBase(size), unit_index + 1)
    ELSE [size |-> size, unit_index |-> unit_index]

\* the integer part of a scaled size
RECURSIVE IntValue(_)
IntValue(ds) == IF ds = <<>> THEN 0 ELSE Head(ds) + Base * IntValue(Tail(ds))

\* 10 * fraction by long multiplication from the least significant digit:
\* the carry out is floor(10 * fraction), `rem` the digits of what is left.
RECURSIVE TimesTen(_)
TimesTen(frac) ==
    IF frac = <<>> THEN [carry |-> 0, rem |-> <<>>]
    ELSE LET rest == TimesTen(Tail(frac))
             v    == 10 * Head(frac) + rest.carry
         IN  [carry |-> v \div Base, rem |-> <<v % Base>> \o rest.rem]

\* f"{size:.1f}": the exact value rounded to tenths, ties to even
Tenths(size) ==
    LET m     == TimesTen(size.frac)
        t     == 10 * IntValue(size.int) + m.carry
        half  == Base \div 2
        above == /\ m.rem # <<>>
                 /\ \/ m.rem[1] > half
                    \/ m.rem[1] = half /\ \E j \in 2..Len(m.rem) : m.rem[j] # 0
        tie   == /\ m.rem # <<>>
                 /\ m.rem[1] = half
                 /\ \A j \in 2..Len(m.rem) : m.rem[j] = 0
    IN  IF above \/ (tie /\ t % 2 = 1) THEN t + 1 ELSE t

\* format_size: the text "<whole>.<tenth> <unit>" as a record, with the
\* scaled float and the unit index it was made from
format_size(size_bytes) ==
    LET r == ScaleLoop(ToFloat(size_bytes), 0)
        t == Tenths(r.size)
    IN  [whole |-> t \div 10, tenth |-> t % 10, unit |-> units[r.unit_index + 1],
         size |-> r.size, unit_index |-> r.unit_index]

(***************************************************************************)
(* The filesystem: a function from the paths that exist to "img" (a file   *)
(* Pillow decodes), "corrupt" (a file it does not), "dir" or "special"     *)
(* (neither file nor directory).  The empty path is the working directory. *)
(***************************************************************************)
Exists(f, p) == p = <<>> \/ p \in DOMAIN f
IsDir(f, p)  == p = <<>> \/ (p \in DOMAIN f /\ f[p] = "dir")
IsFile(f, p) == p \in DOMAIN f /\ f[p] \in {"img", "corrupt"}

\* f with path p set to kind k
Put(f, p, k) == [q \in DOMAIN f \cup {p} |-> IF q = p THEN k ELSE f[q]]

\* the proper, non-empty prefixes of p
Ancestors(p) == {SubSeq(p, 1, n) : n \in 1..(Len(p) - 1)}

\* Path.mkdir(parents=True, exist_ok=True)
Mkdir(f, p) ==
    IF p \in DOMAIN f
    THEN [ok |-> f[p] = "dir", fs |-> f]
    ELSE IF \E a \in Ancestors(p) : a \in DOMAIN f /\ f[a] # "dir"
    THEN [ok |-> FALSE, fs |-> f]
    ELSE [ok |-> TRUE,
          fs |-> [q \in DOMAIN f \cup Ancestors(p) \cup {p} |->
                    IF q \in DOMAIN f THEN f[q] ELSE "dir"]]

\* whether open(path, "w+b") succeeds
CanWrite(f, p) == IsDir(f, Parent(p)) /\ (p \in DOMAIN f => IsFile(f, p))

WEBP == <<".", "w", "e", "b", "p">>

SUPPORTED_EXTENSIONS ==
    { <<".", "j", "p", "g">>, <<".", "j", "p", "e", "g">>,
      <<".", "p", "n", "g">>, <<".", "b", "m", "p">>,
      <<".", "t", "i", "f", "f">>, <<".", "t", "i", "f">>,
      <<".", "g", "i", "f">> }

\* whether Image.open(path) and the decoding that follows succeed
Decodes(f, path) == path \in DOMAIN f /\ f[path] = "img"

\* WebPConverter.is_valid_image: open and verify, any exception is False
is_valid_image_if_present(f, file_path) == file_path \in DOMAIN f
is_valid_image(f, file_path) == Decodes(f, file_path)

\* directory.glob("*") and directory.glob("**/*")
Glob(f, directory, recursive) ==
    IF ~IsDir(f, directory) THEN {}
    ELSE { p \in DOMAIN f :
             /\ IsPrefix(directory, p)
             /\ IF recursive THEN Len(p) > Len(directory)
                             ELSE Len(p) = Len(directory) + 1 }

\* the filter of _find_image_files
IsCandidateCaseSensitive(f, file_path) ==
    IsFile(f, file_path) /\ Suffix(Name(file_path)) \in SUPPORTED_EXTENSIONS
IsCandidate(f, file_path) ==
    IsFile(f, file_path) /\ Lower(Suffix(Name(file_path))) \in SUPPORTED_EXTENSIONS

\* WebPConverter._find_image_files
find_image_files(f, directory, recursive) ==
    Sorted({ p \in Glob(f, directory, recursive) : IsCandidate(f, p) })

\* f"{input_path.stem}.webp"
WebpName(input_path) == Stem(Name(input_path)) \o WEBP

\* the output path convert_to_webp resolves, before any mkdir
ResolveFolderFirst(input_path, output_path, output_folder) ==
    IF output_folder # None THEN Join(output_folder, WebpName(input_path))
    ELSE IF output_path # None THEN output_path
    ELSE Join(Parent(input_path), WebpName(input_path))
Resolve(input_path, output_path, output_folder) ==
    IF output_path # None THEN output_path
    ELSE IF output_folder # None THEN Join(output_folder, WebpName(input_path))
    ELSE Join(Parent(input_path), WebpName(input_path))

\* whether convert_to_webp calls output_folder.mkdir
MakesFolder(output_path, output_folder) ==
    output_path = None /\ output_folder # None

\* The stages of convert_to_webp at which an exception can be raised, in
\* the order they run; "none" is a call no outside fault disturbs.
Faults == {"none", "resolve", "decode", "normalize", "encode", "report"}

\* the save_kwargs img.save receives
SaveKwargsClamped(quality, lossless, method) ==
    [quality  |-> IF quality < 1 THEN 1 ELSE IF quality > 100 THEN 100 ELSE quality,
     method   |-> IF method < 0 THEN 0 ELSE IF method > 6 THEN 6 ELSE method,
     lossless |-> lossless]
SaveKwargs(quality, lossless, method) ==
    [quality |-> quality, method |-> method, lossless |-> lossless]

\* The body of convert_to_webp's try block on filesystem f, with an outside
\* fault (an I/O error at that stage) or none: the stage that raised or
\* "ok", the filesystem left behind, the resolved path, and what reached
\* the encoder (a sequence, empty when img.save was never called).  A corrupt or missing input raises at decode; a path that
\* cannot be created or written raises at resolve or encode.  A fault at
\* "encode" leaves no file; one at "report" (stat, print) leaves the file
\* written although the call fails.
TryConvert(f, input_path, output_path, quality, lossless, method, output_folder, fault) ==
    LET mk  == IF MakesFolder(output_path, output_folder)
               THEN IF fault = "resolve" THEN [ok |-> FALSE, fs |-> f]
                    ELSE Mkdir(f, output_folder)
               ELSE [ok |-> TRUE, fs |-> f]
        out == Resolve(input_path, output_path, output_folder)
        kw  == SaveKwargs(quality, lossless, method)
    IN  IF ~mk.ok
        THEN [stage |-> "resolve", fs |-> mk.fs, out |-> None, enc |-> <<>>]
        ELSE IF fault = "decode" \/ ~Decodes(mk.fs, input_path)
        THEN [stage |-> "decode", fs |-> mk.fs, out |-> out, enc |-> <<>>]
        ELSE IF fault = "normalize"
        THEN [stage |-> "normalize", fs |-> mk.fs, out |-> out, enc |-> <<>>]
        ELSE IF fault = "encode" \/ ~CanWrite(mk.fs, out)
        THEN [stage |-> "encode", fs |-> mk.fs, out |-> out, enc |-> <<kw>>]
        ELSE IF fault = "report"
        THEN [stage |-> "report", fs |-> Put(mk.fs, out, "img"), out |-> out,
              enc |-> <<kw>>]
        ELSE [stage |-> "ok", fs |-> Put(mk.fs, out, "img"), out |-> out,
              enc |-> <<kw>>]

(***************************************************************************)
(* The names, trees and requests the model runs on                         *)
(***************************************************************************)
D        == << <<"d">> >>
SubDir   == Join(D, <<"s">>)
OutDir   == << <<"o", "u", "t">> >>
Missing  == << <<"x">> >>
Pipe     == << <<"p">> >>
A_jpg    == <<"a", ".", "j", "p", "g">>
A_png    == <<"a", ".", "p", "n", "g">>
B_JPG    == <<"b", ".", "J", "P", "G">>
Z_tif    == <<"Z", ".", "t", "i", "f">>
Q_gif    == <<"q", ".", "g", "i", "f">>
C_webp   == <<"c", ".", "w", "e", "b", "p">>
N_txt    == <<"n", ".", "t", "x", "t">>
DotGif   == <<".", "g", "i", "f">>
K_png    == <<"k", ".", "p", "n", "g">>
S_a_gif  == <<"s", "-", "a", ".", "g", "i", "f">>
O_webp   == <<"o", ".", "w", "e", "b", "p">>

\* a filesystem from a set of <<path, kind>> pairs
Tree(entries) ==
    [p \in {e[1] : e \in entries} |->
        (CHOOSE e \in entries : e[1] = p)[2]]

\* same-stem files, a .webp, a text file, a dot file, a directory with an
\* image's name, a subdirectory and a corrupt file whose name sorts after
\* the subdirectory's as a part and before it as text; no output folder yet
TreeMixed ==
    Tree({ <<D, "dir">>, <<Join(D, A_jpg), "img">>, <<Join(D, A_png), "img">>,
           <<Join(D, C_webp), "img">>, <<Join(D, N_txt), "corrupt">>,
           <<Join(D, DotGif), "img">>, <<Join(D, K_png), "dir">>,
           <<SubDir, "dir">>, <<Join(SubDir, A_jpg), "img">>,
           <<Join(D, S_a_gif), "corrupt">>, <<Pipe, "special">> })

\* three valid images and a corrupt one; the output folder exists
TreeThreeAndOne ==
    Tree({ <<D, "dir">>, <<Join(D, A_jpg), "img">>, <<Join(D, B_JPG), "img">>,
           <<Join(D, Z_tif), "img">>, <<Join(D, Q_gif), "corrupt">>,
           <<OutDir, "dir">> })

\* nothing to convert; the output folder's name is taken by a file
TreeNoMatch ==
    Tree({ <<D, "dir">>, <<Join(D, C_webp), "img">>, <<Join(D, N_txt), "corrupt">>,
           <<Join(D, A_jpg), "dir">>, <<OutDir, "corrupt">> })

\* one valid and one corrupt image
TreeSmall ==
    Tree({ <<D, "dir">>, <<Join(D, A_jpg), "img">>, <<Join(D, B_JPG), "corrupt">> })

CliTrees == {TreeMixed, TreeThreeAndOne, TreeNoMatch}
ApiTrees == {TreeSmall}

\* (quality, method, lossless) as given on the command line or by a caller
Settings ==
    { [quality |-> 1,   method |-> 0,  lossless |-> TRUE],
      [quality |-> 100, method |-> 6,  lossless |-> FALSE],
      [quality |-> 0,   method |-> 4,  lossless |-> FALSE],
      [quality |-> 101, method |-> 4,  lossless |-> FALSE],
      [quality |-> 80,  method |-> -1, lossless |-> FALSE],
      [quality |-> 80,  method |-> 7,  lossless |-> TRUE] }

\* convert_to_webp calls a using program makes
ApiRequests ==
    { [input_path |-> Join(D, A_jpg), output_path |-> None,
       output_folder |-> None, quality |-> 80, lossless |-> FALSE,
       method |-> 4],
      [input_path |-> Join(D, A_jpg), output_path |-> <<O_webp>>,
       output_folder |-> OutDir, quality |-> 0, lossless |-> FALSE,
       method |-> -1] }

\* batch_convert calls a using program makes
ApiBatches ==
    { [directory |-> D, quality |-> 150, lossless |-> TRUE, method |-> 9,
       recursive |-> TRUE, output_folder |-> OutDir],
      [directory |-> Missing, quality |-> 80, lossless |-> FALSE,
       method |-> 4, recursive |-> FALSE, output_folder |-> None] }

CliInputs  == {D, Join(D, A_jpg), Join(D, C_webp), Join(D, N_txt), Missing, Pipe}
CliOutputs == {None, <<O_webp>>, <<<<"m">>, O_webp>>}
Folders    == {None, OutDir}

\* the parsed command lines (verbose only prints); a directory is run with
\* one of the accepted settings and without the nested output path, which
\* a directory run ignores like the plain one
AllCliArgs ==
    { [input |-> i, output |-> o, output_folder |-> g, quality |-> s.quality,
       lossless |-> s.lossless, method |-> s.method, recursive |-> r] :
      i \in CliInputs, o \in CliOutputs, g \in Folders, s \in Settings,
      r \in BOOLEAN }
CliArgs ==
    { a \in AllCliArgs :
        a.input = D => a.output # <<<<"m">>, O_webp>> /\ a.quality # 100 }

NoArgs == [input |-> None, output |-> None, output_folder |-> None,
           quality |-> 80, lossless |-> FALSE, method |-> 4,
           recursive |-> FALSE]

\* wall-clock ticks a successful conversion can take
Elapsed == {1, 2}

\* calls a program using the class makes on one converter
MaxCalls == 2

\* number of base-1024 digits of the byte counts format_size is run on
MaxDigits == 6

(***************************************************************************)
(* State                                                                   *)
(***************************************************************************)
VARIABLES
    driver,           \* "cli": main() runs; "api": a program calls the class
    args,             \* the parsed command line
    fs,               \* the filesystem
    fs0,              \* the filesystem the run started on
    pc,               \* where the run is
    exit_code,        \* the process exit code, -1 while running
    converted_count,  \* WebPConverter.converted_count
    failed_count,     \* WebPConverter.failed_count
    bargs,            \* the arguments of the batch_convert call in progress
    image_files,      \* batch_convert's image_files
    idx,              \* position of the for loop in image_files
    total_time,       \* batch_convert's total_time
    base,             \* number of convert_to_webp calls before this batch
    ret,              \* what the last batch_convert returned, <<>> if none
    calls,            \* every convert_to_webp call made, in order
    interrupted,      \* a KeyboardInterrupt was delivered
    raised,           \* an exception left the last call or reached main
    api_calls,        \* calls the using program has made
    fmt_in,           \* the byte count given to format_size
    fmt_out           \* what format_size returned, <<>> before the call

vars == <<driver, args, fs, fs0, pc, exit_code, converted_count, failed_count,
          bargs, image_files, idx, total_time, base, ret, calls, interrupted,
          raised, api_calls, fmt_in, fmt_out>>

NoBatch == [directory |-> None, quality |-> 80, lossless |-> FALSE,
            method |-> 4, recursive |-> FALSE, output_folder |-> None]

\* WebPConverter.__init__ and the state before anything ran
InitCommon ==
    /\ fs0 = fs
    /\ exit_code = -1
    /\ converted_count = 0
    /\ failed_count = 0
    /\ bargs = NoBatch
    /\ image_files = <<>>
    /\ idx = 0
    /\ total_time = 0
    /\ base = 0
    /\ ret = <<>>
    /\ calls = <<>>
    /\ interrupted = FALSE
    /\ raised = FALSE
    /\ api_calls = 0

Init ==
    /\ \/ driver = "cli" /\ args \in CliArgs /\ fs \in CliTrees /\ pc = "start"
       \/ driver = "api" /\ args = NoArgs /\ fs \in ApiTrees /\ pc = "idle"
    /\ fmt_in = <<>>
    /\ fmt_out = <<>>
    /\ InitCommon

\* the status of a process whose stdout the interpreter could not flush at
\* exit (stdout is block-buffered when it is a file or a pipe: the prints
\* succeed and the write fails when the interpreter ends)
FlushFailed == 120

\* the status of a process killed by SIGINT, which is how the interpreter
\* ends on a KeyboardInterrupt nothing caught
Sigint == -2

\* how the process ends once main is over
ProcessEnds == {"clean", "flush_fails", "sigint"}

\* sys.exit(code), main returning (code 0), or main left by an exception
\* (code 1), and then the end of the process.  interrupt tells whether a
\* KeyboardInterrupt was delivered before; one that arrives now, in an
\* except clause or after the try block, is caught by nothing.
Exit(code, interrupt) ==
    /\ pc' = "done"
    /\ \E end \in ProcessEnds :
          /\ exit_code' = IF end = "sigint" THEN Sigint
                          ELSE IF end = "flush_fails" THEN FlushFailed
                          ELSE code
          /\ interrupted' = (interrupt \/ end = "sigint")

\* main's `except KeyboardInterrupt`: a print and sys.exit(1); when the
\* print raises, the exception leaves main and the status is 1 as well
Cancelled ==
    /\ \E print_fails \in BOOLEAN : raised' = print_fails
    /\ Exit(1, TRUE)

(***************************************************************************)
(* convert_to_webp                                                         *)
(***************************************************************************)
\* the faults that can strike the try block of a call with these arguments
FaultsFor(output_path, output_folder) ==
    IF MakesFolder(output_path, output_folder) THEN Faults
    ELSE Faults \ {"resolve"}

\* Where a Ctrl-C can arrive inside a call: "start" before anything is
\* done (the folder is not made yet), "open" while the input is being
\* opened (the path is resolved and the folder made), "saved" after
\* img.save wrote the file, "handler" in the except clause before the
\* counter is touched, "counted" after the counter was updated and before
\* the return; "none" is a call no Ctrl-C disturbs.
Signals == {"none", "start", "open", "saved", "handler", "counted"}

\* What can disturb one call from outside: an exception at a stage of the
\* try block (fault), the handler's own print raising (handler_fails: the
\* reader of stdout is gone, the disk is full, stdout cannot encode the file
\* name), and a Ctrl-C inside the call (signal).  A print raises when its
\* write is made at once and fails, or when the text cannot be encoded; a
\* write that stays in the buffer fails when the process ends (see Exit).
Disturbances(output_path, output_folder) ==
    { d \in [fault : FaultsFor(output_path, output_folder), handler_fails : BOOLEAN, signal : Signals] :
        /\ d.signal \in {"start", "open", "saved"} => d.fault = "none" /\ ~d.handler_fails
        /\ d.signal = "handler" => d.fault # "none" /\ ~d.handler_fails
        /\ d.signal = "counted" => ~d.handler_fails }

\* One call on filesystem f under disturbance d: the try block, then how
\* the call ends.  stage is where an exception was raised ("ok": nowhere,
\* "start": a Ctrl-C before the try block did anything).  how is
\* "returned"; or "raised" when the print of the handler failed, so that
\* the exception leaves the call before failed_count is touched; or
\* "interrupted", as KeyboardInterrupt is no Exception and passes the
\* handler.  counted tells whether the counter update was reached.
Call(f, input_path, output_path, quality, lossless, method, output_folder, d) ==
    LET r   == TryConvert(f, input_path, output_path, quality, lossless, method, output_folder, IF d.signal = "open" THEN "decode" ELSE IF d.signal = "saved" THEN "report" ELSE d.fault)
        how == IF d.signal # "none" THEN "interrupted"
               ELSE IF r.stage # "ok" /\ d.handler_fails THEN "raised"
               ELSE "returned"
    IN  IF d.signal = "start"
        THEN [stage |-> "start", fs |-> f, out |-> None, enc |-> <<>>,
              how |-> how, counted |-> FALSE]
        ELSE [stage |-> r.stage, fs |-> r.fs, out |-> r.out, enc |-> r.enc,
              how |-> how,
              counted |-> how = "returned" \/ d.signal = "counted"]

\* what convert_to_webp returns: a pair, or nothing (<<>>) when the call
\* was left by an exception
Returned(r, elapsed) ==
    IF r.how # "returned" THEN <<>>
    ELSE IF r.stage = "ok" THEN <<Str(r.out), elapsed>>
    ELSE <<NoResult, 0>>

\* the counters after a call
Counters(r) ==
    /\ converted_count' = IF r.counted /\ r.stage = "ok" THEN converted_count + 1
                          ELSE converted_count
    /\ failed_count' = IF r.counted /\ r.stage # "ok" THEN failed_count + 1
                       ELSE failed_count

\* One whole call of convert_to_webp: the filesystem, the counters and the
\* record of the call.
convert_to_webp(input_path, output_path, quality, lossless, method, output_folder, d, elapsed) ==
    LET r == Call(fs, input_path, output_path, quality, lossless, method,
                  output_folder, d)
    IN  /\ fs' = r.fs
        /\ Counters(r)
        /\ calls' = Append(calls,
              [input_path |-> input_path, output_path |-> output_path,
               output_folder |-> output_folder, quality |-> quality,
               lossless |-> lossless, method |-> method,
               stage |-> r.stage, out |-> r.out, enc |-> r.enc,
               how |-> r.how, returned |-> Returned(r, elapsed)])

(***************************************************************************)
(* batch_convert                                                           *)
(***************************************************************************)
\* batch_convert up to its for loop: the existence check, the scan, and the
\* early return when nothing matched.  scan_fails is an exception raised
\* before the loop (an OSError out of glob, a print that fails).
BatchEnter(directory, quality, lossless, method, recursive, output_folder, scan_fails) ==
    LET found == find_image_files(fs, directory, recursive)
    IN  /\ bargs' = [directory |-> directory, quality |-> quality,
                     lossless |-> lossless, method |-> method,
                     recursive |-> recursive, output_folder |-> output_folder]
        /\ base' = Len(calls)
        /\ total_time' = 0
        /\ IF ~Exists(fs, directory) \/ scan_fails
           THEN /\ raised' = TRUE
                /\ image_files' = <<>>
                /\ idx' = 0
                /\ ret' = <<>>
           ELSE /\ raised' = FALSE
                /\ image_files' = found
                /\ idx' = 1
                /\ ret' = IF found = <<>> THEN <<0, 0>> ELSE <<>>

\* the value batch_convert returns after its loop
BatchResult == <<converted_count, total_time>>

\* An exception or a Ctrl-C left convert_to_webp inside the for loop, which
\* has no try: batch_convert is over without a return value and the files
\* after this one are never passed.  In main the exception reaches
\* `except Exception` or `except KeyboardInterrupt`, both of which exit
\* with 1; the using program catches nothing and ends.
BatchAbandoned(how) ==
    /\ IF driver = "cli"
       THEN IF how = "interrupted"
            THEN Cancelled
            ELSE raised' = TRUE /\ Exit(1, FALSE)
       ELSE /\ raised' = (how = "raised")
            /\ pc' = "done"
            /\ exit_code' = exit_code
            /\ interrupted' = (how = "interrupted")
    /\ UNCHANGED <<bargs, image_files, idx, total_time, base>>

\* one iteration of the for loop
BatchStep ==
    /\ pc = "batch"
    /\ idx <= Len(image_files)
    /\ LET img_file == image_files[idx]
       IN  IF Lower(Suffix(Name(img_file))) = WEBP
           THEN /\ idx' = idx + 1
                /\ UNCHANGED <<fs, converted_count, failed_count, calls,
                               total_time, pc, exit_code, bargs, image_files,
                               base, interrupted, raised>>
           ELSE \E d \in Disturbances(None, bargs.output_folder),
                   elapsed \in Elapsed :
                  LET r == Call(fs, img_file, None, bargs.quality,
                                bargs.lossless, bargs.method,
                                bargs.output_folder, d)
                  IN  /\ convert_to_webp(img_file, None, bargs.quality,
                                         bargs.lossless, bargs.method,
                                         bargs.output_folder, d, elapsed)
                      /\ IF r.how = "returned"
                         THEN /\ total_time' = total_time + Returned(r, elapsed)[2]
                              /\ idx' = idx + 1
                              /\ UNCHANGED <<pc, exit_code, bargs, image_files,
                                             base, interrupted, raised>>
                         ELSE BatchAbandoned(r.how)
    /\ UNCHANGED <<driver, args, fs0, ret, api_calls, fmt_in, fmt_out>>

\* the loop is over: return self.converted_count, total_time
BatchReturn ==
    /\ pc = "batch"
    /\ idx > Len(image_files)
    /\ ret' = BatchResult
    /\ pc' = "batch_ret"
    /\ UNCHANGED <<driver, args, fs, fs0, exit_code, converted_count,
                   failed_count, bargs, image_files, idx, total_time, base,
                   calls, interrupted, raised, api_calls, fmt_in, fmt_out>>

(***************************************************************************)
(* main                                                                    *)
(***************************************************************************)
\* what argparse accepts for -q and -m
QualityChoices == 1..100
MethodChoices  == 0..6

\* the banner, printed before the command line is parsed and outside the
\* try block: when a print of it raises, main is left with a traceback
MainBanner ==
    /\ pc = "start"
    /\ \E print_fails \in BOOLEAN :
          /\ raised' = print_fails
          /\ IF print_fails
             THEN Exit(1, FALSE)
             ELSE /\ pc' = "parse"
                  /\ UNCHANGED <<exit_code, interrupted>>
    /\ UNCHANGED <<driver, args, fs, fs0, converted_count, failed_count,
                   bargs, image_files, idx, total_time, base, ret, calls,
                   api_calls, fmt_in, fmt_out>>

\* parser.parse_args(): a value outside the choices ends the process with 2
MainParse ==
    /\ pc = "parse"
    /\ IF args.quality \in QualityChoices /\ args.method \in MethodChoices
       THEN pc' = "validate" /\ UNCHANGED <<exit_code, interrupted>>
       ELSE Exit(2, FALSE)
    /\ UNCHANGED <<driver, args, fs, fs0, converted_count, failed_count,
                   bargs, image_files, idx, total_time, base, ret, calls,
                   raised, api_calls, fmt_in, fmt_out>>

\* the input path check, the prints of --verbose, then WebPConverter();
\* a print that raises here is outside the try block
MainValidate ==
    /\ pc = "validate"
    /\ \E print_fails \in BOOLEAN :
          /\ raised' = print_fails
          /\ IF ~Exists(fs, args.input) \/ print_fails
             THEN Exit(1, FALSE)
             ELSE /\ pc' = "try"
                  /\ UNCHANGED <<exit_code, interrupted>>
    /\ converted_count' = 0
    /\ failed_count' = 0
    /\ UNCHANGED <<driver, args, fs, fs0, bargs, image_files, idx, total_time,
                   base, ret, calls, api_calls, fmt_in, fmt_out>>

\* The single-file branch up to the return of convert_to_webp.  An
\* exception out of the call, or out of the print for an invalid file,
\* reaches `except Exception`; a Ctrl-C inside the call reaches
\* `except KeyboardInterrupt`.
MainSingle ==
    /\ pc = "try"
    /\ IsFile(fs, args.input)
    /\ IF ~is_valid_image(fs, args.input)
       THEN /\ \E print_fails \in BOOLEAN : raised' = print_fails
            /\ Exit(1, FALSE)
            /\ UNCHANGED <<fs, converted_count, failed_count, calls>>
       ELSE \E d \in Disturbances(args.output, args.output_folder),
               elapsed \in Elapsed :
              LET r == Call(fs, args.input, args.output, args.quality,
                            args.lossless, args.method, args.output_folder, d)
              IN  /\ convert_to_webp(args.input, args.output, args.quality,
                                     args.lossless, args.method,
                                     args.output_folder, d, elapsed)
                  /\ IF r.how = "returned"
                     THEN /\ pc' = "single_ret"
                          /\ UNCHANGED <<exit_code, interrupted, raised>>
                     ELSE IF r.how = "interrupted"
                     THEN Cancelled
                     ELSE raised' = TRUE /\ Exit(1, FALSE)
    /\ UNCHANGED <<driver, args, fs0, bargs, image_files, idx, total_time,
                   base, ret, api_calls, fmt_in, fmt_out>>

\* convert_to_webp returned to main: the print of the outcome, and
\* sys.exit(1) for a failed conversion; a print that raises reaches
\* `except Exception`
MainSingleResult ==
    /\ pc = "single_ret"
    /\ \E print_fails \in BOOLEAN :
          /\ raised' = print_fails
          /\ Exit(IF calls[Len(calls)].returned[1] # NoResult /\ ~print_fails
                  THEN 0 ELSE 1, FALSE)
    /\ UNCHANGED <<driver, args, fs, fs0, converted_count, failed_count,
                   bargs, image_files, idx, total_time, base, ret, calls,
                   api_calls, fmt_in, fmt_out>>

\* the directory branch up to the loop of batch_convert; an exception out
\* of batch_convert reaches `except Exception`
MainBatch ==
    /\ pc = "try"
    /\ ~IsFile(fs, args.input)
    /\ IsDir(fs, args.input)
    /\ \E scan_fails \in BOOLEAN :
          BatchEnter(args.input, args.quality, args.lossless, args.method,
                     args.recursive, args.output_folder, scan_fails)
    /\ IF raised' THEN Exit(1, FALSE)
       ELSE /\ pc' = IF image_files' = <<>> THEN "batch_ret" ELSE "batch"
            /\ UNCHANGED <<exit_code, interrupted>>
    /\ UNCHANGED <<driver, args, fs, fs0, converted_count, failed_count,
                   calls, api_calls, fmt_in, fmt_out>>

\* neither file nor directory
MainNeither ==
    /\ pc = "try"
    /\ ~IsFile(fs, args.input)
    /\ ~IsDir(fs, args.input)
    /\ \E print_fails \in BOOLEAN : raised' = print_fails
    /\ Exit(1, FALSE)
    /\ UNCHANGED <<driver, args, fs, fs0, converted_count, failed_count,
                   bargs, image_files, idx, total_time, base, ret, calls,
                   api_calls, fmt_in, fmt_out>>

\* the exit code after the batch summary
SummaryExitFailsOnFailure == IF failed_count > 0 THEN 1 ELSE 0
SummaryExit == 0

\* the summary after batch_convert returned; main returns, unless a print
\* of the summary fails, which reaches `except Exception`
MainSummary ==
    /\ pc = "batch_ret"
    /\ driver = "cli"
    /\ \E print_fails \in BOOLEAN :
          /\ raised' = print_fails
          /\ Exit(IF print_fails THEN 1 ELSE SummaryExit, FALSE)
    /\ UNCHANGED <<driver, args, fs, fs0, converted_count, failed_count,
                   bargs, image_files, idx, total_time, base, ret, calls,
                   api_calls, fmt_in, fmt_out>>

\* Ctrl-C in main outside a convert_to_webp call: inside the try block it
\* reaches `except KeyboardInterrupt`; before the try block nothing catches
\* it and the process is killed by SIGINT
MainInterrupt ==
    /\ driver = "cli"
    /\ pc \in {"start", "parse", "validate", "try", "single_ret", "batch", "batch_ret"}
    /\ IF pc \in {"try", "single_ret", "batch", "batch_ret"}
       THEN Cancelled
       ELSE /\ pc' = "done"
            /\ exit_code' = Sigint
            /\ interrupted' = TRUE
            /\ raised' = raised
    /\ UNCHANGED <<driver, args, fs, fs0, converted_count, failed_count,
                   bargs, image_files, idx, total_time, base, ret, calls,
                   api_calls, fmt_in, fmt_out>>

(***************************************************************************)
(* A program that uses one WebPConverter directly                          *)
(***************************************************************************)
\* a call of convert_to_webp; the program catches nothing, so that an
\* exception or a Ctrl-C out of the call ends it
ApiConvert ==
    /\ driver = "api"
    /\ pc = "idle"
    /\ api_calls < MaxCalls
    /\ \E q \in ApiRequests :
          \E d \in Disturbances(q.output_path, q.output_folder),
             elapsed \in Elapsed :
             LET r == Call(fs, q.input_path, q.output_path, q.quality,
                           q.lossless, q.method, q.output_folder, d)
             IN  /\ convert_to_webp(q.input_path, q.output_path, q.quality,
                                    q.lossless, q.method, q.output_folder, d,
                                    elapsed)
                 /\ raised' = (r.how = "raised")
                 /\ interrupted' = (r.how = "interrupted")
                 /\ pc' = IF r.how = "returned" THEN "idle" ELSE "done"
    /\ api_calls' = api_calls + 1
    /\ UNCHANGED <<driver, args, fs0, exit_code, bargs, image_files, idx,
                   total_time, base, ret, fmt_in, fmt_out>>

ApiBatch ==
    /\ driver = "api"
    /\ pc = "idle"
    /\ api_calls < MaxCalls
    /\ \E b \in ApiBatches :
          \E scan_fails \in BOOLEAN :
             BatchEnter(b.directory, b.quality, b.lossless, b.method,
                        b.recursive, b.output_folder, scan_fails)
    /\ pc' = IF raised' THEN "done"
             ELSE IF image_files' = <<>> THEN "batch_ret" ELSE "batch"
    /\ api_calls' = api_calls + 1
    /\ UNCHANGED <<driver, args, fs, fs0, exit_code, converted_count,
                   failed_count, calls, interrupted, fmt_in, fmt_out>>

\* a Ctrl-C while the program is in batch_convert outside a convert_to_webp
\* call (before the scan, or in the loop between two files): nothing
\* catches it and the program ends
ApiInterrupt ==
    /\ driver = "api"
    /\ \/ pc = "idle" /\ api_calls < MaxCalls
       \/ pc = "batch"
    /\ interrupted' = TRUE
    /\ pc' = "done"
    /\ UNCHANGED <<driver, args, fs, fs0, exit_code, converted_count,
                   failed_count, bargs, image_files, idx, total_time, base,
                   ret, calls, raised, api_calls, fmt_in, fmt_out>>

\* the caller has the returned pair; batch_convert's locals are gone
ApiBatchReturned ==
    /\ driver = "api"
    /\ pc = "batch_ret"
    /\ pc' = "idle"
    /\ bargs' = NoBatch
    /\ image_files' = <<>>
    /\ idx' = 0
    /\ total_time' = 0
    /\ base' = 0
    /\ UNCHANGED <<driver, args, fs, fs0, exit_code, converted_count,
                   failed_count, ret, calls, interrupted, raised, api_calls,
                   fmt_in, fmt_out>>

Next ==
    \/ MainBanner
    \/ MainParse
    \/ MainValidate
    \/ MainSingle
    \/ MainSingleResult
    \/ MainBatch
    \/ MainNeither
    \/ MainSummary
    \/ MainInterrupt
    \/ BatchStep
    \/ BatchReturn
    \/ ApiConvert
    \/ ApiBatch
    \/ ApiInterrupt
    \/ ApiBatchReturned

Spec == Init /\ [][Next]_vars

(***************************************************************************)
(* format_size run on its own                                              *)
(***************************************************************************)
DigitSamples == {0, 1, 256, 512, 999, 1023}
TopSamples   == {0, 1, 7}

\* byte counts of MaxDigits digits; with six digits and a top digit below
\* 8 they are below 2^53, where float() is exact
ByteCounts ==
    { ds \in [1..MaxDigits -> DigitSamples \cup TopSamples] :
        /\ ds[MaxDigits] \in TopSamples
        /\ \A i \in 1..(MaxDigits - 1) : ds[i] \in DigitSamples }

InitFmt ==
    /\ driver = "fmt"
    /\ args = NoArgs
    /\ fs = TreeSmall
    /\ pc = "fmt"
    /\ fmt_in \in ByteCounts
    /\ fmt_out = <<>>
    /\ InitCommon

\* a call of format_size
FormatSize ==
    /\ pc = "fmt"
    /\ fmt_out' = <<format_size(fmt_in)>>
    /\ pc' = "formatted"
    /\ UNCHANGED <<driver, args, fs, fs0, exit_code, converted_count,
                   failed_count, bargs, image_files, idx, total_time, base,
                   ret, calls, interrupted, raised, api_calls, fmt_in>>

NextFmt == FormatSize

SpecFmt == InitFmt /\ [][NextFmt]_vars

(***************************************************************************)
(* C8: format_size                                                         *)
(***************************************************************************)
\* the byte count with these digits from the lowest up, zero-padded
Count(low) == [i \in 1..MaxDigits |-> IF i <= Len(low) THEN low[i] ELSE 0]

\* the largest k with 1024^k <= n, 0 for n < 1024
Magnitude(n) ==
    IF \E i \in 2..Len(n) : n[i] # 0
    THEN (CHOOSE i \in 2..Len(n) :
            n[i] # 0 /\ \A j \in (i+1)..Len(n) : n[j] = 0) - 1
    ELSE 0

Min(a, b) == IF a < b THEN a ELSE b

\* size * 1024^k, as digits from the lowest up
Unscaled(size) == [i \in 1..Len(size.frac) |-> size.frac[Len(size.frac) + 1 - i]]
                    \o size.int

\* C8: for every byte count n, format_size's unit index is
\* min(4, largest k with 1024^k <= n) (0 below 1024), the scaled value is
\* n / 1024^k, at least 1 when n >= 1 and below 1024 unless the unit is TB,
\* and 0, 1536 and 1048576 format as "0.0 B", "1.5 KB" and "1.0 MB".
FormatSizeUnit ==
    pc = "formatted" =>
        LET out == fmt_out[1]
        IN  /\ out.unit_index = Min(4, Magnitude(fmt_in))
            /\ out.unit = <<"B", "KB", "MB", "GB", "TB">>[out.unit_index + 1]
            /\ Len(out.size.frac) = out.unit_index
            /\ Unscaled(out.size) = fmt_in
            /\ (\E i \in 1..Len(fmt_in) : fmt_in[i] # 0)
                  => IntValue(out.size.int) >= 1
            /\ out.unit # "TB" => IntValue(out.size.int) < 1024
            /\ fmt_in = Count(<<>>)
                  => out.whole = 0 /\ out.tenth = 0 /\ out.unit = "B"
            /\ fmt_in = Count(<<512, 1>>)
                  => out.whole = 1 /\ out.tenth = 5 /\ out.unit = "KB"
            /\ fmt_in = Count(<<0, 0, 1>>)
                  => out.whole = 1 /\ out.tenth = 0 /\ out.unit = "MB"

\* a count of 1024 TB or more was formatted: the unit stays TB
FormatSizeCapped ==
    /\ pc = "formatted"
    /\ Magnitude(fmt_in) > 4
    /\ fmt_out[1].unit = "TB"
    /\ fmt_out[1].whole >= 1024

(***************************************************************************)
(* Claims about the converter and main                                     *)
(***************************************************************************)
CallIds == 1..Len(calls)

\* a call that returned a path
Ok(i) == calls[i].how = "returned" /\ calls[i].stage = "ok"

\* a call that met an exception in its try block and no Ctrl-C
Failed(i) == calls[i].how # "interrupted" /\ calls[i].stage # "ok"

\* the calls batch_convert has made since it was entered
BatchCallIds == (base + 1)..Len(calls)

InBatch == pc \in {"batch", "batch_ret"}

RECURSIVE SumTimes(_)
SumTimes(ids) ==
    IF ids = {} THEN 0
    ELSE LET i == CHOOSE x \in ids : TRUE
         IN  calls[i].returned[2] + SumTimes(ids \ {i})

\* C1: a failure of convert_to_webp on one file (an exception at any stage
\* of its try block) never ends the batch: the failing call returns
\* (None, 0.0), every file before the loop position has been passed to
\* convert_to_webp whatever failed before it, and a batch that was entered
\* is left only by its return after the last candidate (or by Ctrl-C),
\* never by an exception.
BatchSurvivesFailures ==
    /\ \A i \in BatchCallIds :
          bargs # NoBatch /\ Failed(i) => calls[i].returned = <<NoResult, 0>>
    /\ InBatch /\ image_files # <<>> =>
          /\ Len(calls) - base = idx - 1
          /\ \A k \in 1..(idx - 1) :
                calls[base + k].input_path = image_files[k]
    /\ pc = "batch_ret" => idx = Len(image_files) + 1 /\ ret # <<>>
    /\ driver = "cli" /\ pc = "done" /\ image_files # <<>> /\ ~interrupted =>
          /\ Len(calls) = Len(image_files)
          /\ ret # <<>>

\* C2: every call of convert_to_webp increments exactly one of the two
\* counters by one and leaves the other, so that, Ctrl-C apart, the
\* counters always equal the numbers of successful and of failed calls
\* made and add up to the number of calls.
CountersCountCalls ==
    ~interrupted =>
        /\ converted_count = Cardinality({i \in CallIds : calls[i].stage = "ok"})
        /\ failed_count = Cardinality({i \in CallIds : calls[i].stage # "ok"})
        /\ converted_count + failed_count = Len(calls)

\* the conditions under which main exits with code 1
InputMissing  == ~Exists(fs0, args.input)
SingleInvalid == IsFile(fs0, args.input) /\ fs0[args.input] # "img"
SingleFailed  == /\ IsFile(fs0, args.input)
                 /\ calls # <<>>
                 /\ calls[1].returned = <<NoResult, 0>>
NeitherKind   == /\ Exists(fs0, args.input)
                 /\ ~IsFile(fs0, args.input)
                 /\ ~IsDir(fs0, args.input)
ExitOneCase   == \/ InputMissing
                 \/ SingleInvalid
                 \/ SingleFailed
                 \/ NeitherKind
                 \/ interrupted
                 \/ raised

\* the command line is one the argument parser rejects
UsageError == ~(args.quality \in 1..100 /\ args.method \in 0..6)

CliDone == driver = "cli" /\ pc = "done"

\* C3 as stated: the exit code is 1 exactly in the listed cases and 0 in
\* every other run.
ExitCodeOneOrZero ==
    CliDone => /\ exit_code = 1 <=> ExitOneCase
               /\ ~ExitOneCase => exit_code = 0

\* the process ended with the status main chose: the interpreter could
\* flush stdout and no Ctrl-C arrived outside main's try block
EndedByMain == exit_code # FlushFailed /\ exit_code # Sigint

\* C3, amended: the status is 120 when stdout cannot be flushed at exit and
\* the process is killed by SIGINT when a Ctrl-C arrives in main outside its
\* try block.  Otherwise an unhandled error (a failing print of the banner
\* included) exits with 1, else a command line the argument parser rejects
\* exits with 2, else the exit code is 1 exactly in the listed cases and 0
\* in every other run, a batch with failed files included.
ExitCodes ==
    /\ exit_code \in {-1, 0, 1, 2, FlushFailed, Sigint}
    /\ exit_code # -1 <=> CliDone
    /\ exit_code = Sigint => interrupted
    /\ CliDone /\ EndedByMain =>
          /\ raised => exit_code = 1
          /\ UsageError /\ ~raised => exit_code = 2
          /\ ~UsageError =>
                /\ exit_code = 1 <=> ExitOneCase
                /\ ~ExitOneCase => exit_code = 0
    /\ CliDone /\ EndedByMain /\ ~UsageError /\ ~interrupted /\ ~raised
       /\ IsDir(fs0, args.input) => exit_code = 0

\* end states of C3's interrupt case: a Ctrl-C after a single-file call
\* returned its path, and one whose "cancelled" print raised
InterruptedAfterReturn ==
    /\ CliDone
    /\ calls # <<>>
    /\ Ok(1)
    /\ IsFile(fs0, args.input)
    /\ converted_count = 1
    /\ interrupted
    /\ ~raised
    /\ exit_code = 1

CancelPrintFailed ==
    /\ CliDone
    /\ IsDir(fs0, args.input)
    /\ calls # <<>>
    /\ interrupted
    /\ raised
    /\ exit_code = 1

\* three valid images and a corrupt one: 3 converted, 1 failed, exit code 0
ThreeConvertedOneFailedExitZero ==
    /\ CliDone
    /\ fs0 = TreeThreeAndOne
    /\ args.input = D
    /\ ret # <<>>
    /\ ret[1] = 3
    /\ converted_count = 3
    /\ failed_count = 1
    /\ exit_code = 0

\* the path the precedence of C4 gives, written out
StemOfInput(c) ==
    LET name == c.input_path[Len(c.input_path)]
    IN  IF name = A_jpg \/ name = A_png THEN <<"a">>
        ELSE IF name = B_JPG THEN <<"b">>
        ELSE IF name = C_webp THEN <<"c">>
        ELSE IF name = Z_tif THEN <<"Z">>
        ELSE IF name = Q_gif THEN <<"q">>
        ELSE IF name = N_txt THEN <<"n">>
        ELSE IF name = S_a_gif THEN <<"s", "-", "a">>
        ELSE <<"?">>

Expected(c) ==
    LET file == StemOfInput(c) \o <<".", "w", "e", "b", "p">>
    IN  IF c.output_path # None THEN c.output_path
        ELSE IF c.output_folder # None THEN Append(c.output_folder, file)
        ELSE Append(SubSeq(c.input_path, 1, Len(c.input_path) - 1), file)

\* C4, per call: the output path is the explicit one if given,
\* else <output_folder>/<stem>.webp, else <input_folder>/<stem>.webp, and a
\* successful call returns that path and has written it.
OutputPrecedence ==
    \A i \in CallIds :
        LET c == calls[i]
        IN  /\ c.stage \notin {"start", "resolve"} => c.out = Expected(c)
            /\ c.stage = "resolve" =>
                  c.output_path = None /\ c.output_folder # None
            /\ Ok(i) => c.returned[1] = Str(Expected(c))
            /\ Ok(i) /\ i = Len(calls) => IsFile(fs, Expected(c))

\* C4, per call as a step: an explicit output path leaves the output folder
\* as it was (neither used nor created); without one, a configured folder
\* exists as a directory once the path is resolved.
OutputFolderStep ==
    Len(calls') = Len(calls) + 1 =>
        LET c == calls'[Len(calls')]
        IN  /\ c.output_path # None /\ c.output_folder # None =>
                  /\ Exists(fs', c.output_folder) = Exists(fs, c.output_folder)
                  /\ \A p \in DOMAIN fs' \ DOMAIN fs :
                        ~IsPrefix(c.output_folder, p) \/ p = c.output_path
            /\ c.output_path = None /\ c.output_folder # None
               /\ c.stage \notin {"start", "resolve"} => IsDir(fs', c.output_folder)

OutputPathResolved == []OutputPrecedence /\ [][OutputFolderStep]_vars

\* an explicit output path was used although a folder was configured, and
\* the folder was not created
ExplicitPathWonOverFolder ==
    /\ CliDone
    /\ calls # <<>>
    /\ Ok(1)
    /\ calls[1].output_path = <<O_webp>>
    /\ calls[1].output_folder = OutDir
    /\ calls[1].returned[1] = O_webp
    /\ ~Exists(fs, OutDir)
    /\ IsFile(fs, <<O_webp>>)

\* C5 as stated: whatever quality and method are given, what reaches the
\* encoder is the value clamped to 1..100 and 0..6.
EncoderValuesClamped ==
    \A i \in CallIds :
        calls[i].enc # <<>> =>
            /\ calls[i].enc[1].quality \in 1..100
            /\ calls[i].enc[1].method \in 0..6
            /\ calls[i].quality > 100 => calls[i].enc[1].quality = 100
            /\ calls[i].quality < 1 => calls[i].enc[1].quality = 1
            /\ calls[i].method > 6 => calls[i].enc[1].method = 6
            /\ calls[i].method < 0 => calls[i].enc[1].method = 0

\* C5, amended: nothing is clamped.  On the command line a quality outside
\* 1..100 or a method outside 0..6 is rejected by the argument parser (exit
\* code 2, no conversion), so what reaches the encoder in a run of the tool
\* is in range; a value given as an argument of convert_to_webp or
\* batch_convert reaches the encoder unchanged, in range or not.
EncoderValuesAsGiven ==
    /\ \A i \in CallIds :
          /\ calls[i].enc # <<>> =>
                /\ calls[i].enc[1].quality = calls[i].quality
                /\ calls[i].enc[1].method = calls[i].method
                /\ calls[i].enc[1].lossless = calls[i].lossless
          /\ calls[i].stage \in {"encode", "report", "ok"} <=> calls[i].enc # <<>>
          /\ driver = "cli" =>
                /\ calls[i].quality = args.quality
                /\ calls[i].method = args.method
                /\ calls[i].quality \in 1..100
                /\ calls[i].method \in 0..6
    /\ \A k \in BatchCallIds :
          InBatch => /\ calls[k].quality = bargs.quality
                     /\ calls[k].method = bargs.method
    /\ driver = "cli" /\ UsageError =>
          /\ calls = <<>>
          /\ fs = fs0
          /\ pc = "done" /\ EndedByMain /\ ~raised => exit_code = 2

\* a caller's quality 150 and method 9 reached the encoder in a batch
OutOfRangeReachedEncoder ==
    /\ driver = "api"
    /\ pc = "batch_ret"
    /\ \E k \in BatchCallIds :
          /\ Ok(k)
          /\ calls[k].enc[1].quality = 150
          /\ calls[k].enc[1].method = 9
    /\ \E i \in CallIds : calls[i].enc # <<>> /\ calls[i].enc[1].quality = 0

\* the files C6 names, written out: regular files under the root, directly
\* or anywhere below it, whose extension in lower case is one of the seven
SevenExtensions ==
    { <<".", "j", "p", "g">>, <<".", "j", "p", "e", "g">>,
      <<".", "p", "n", "g">>, <<".", "b", "m", "p">>,
      <<".", "t", "i", "f", "f">>, <<".", "t", "i", "f">>,
      <<".", "g", "i", "f">> }

EndsWithIgnoringCase(name, ext) ==
    /\ Len(name) > Len(ext)
    /\ \A k \in 1..Len(ext) :
          LowerChar(name[Len(name) - Len(ext) + k]) = ext[k]

Matching(f, root, recursive) ==
    { p \in DOMAIN f :
        /\ f[p] \in {"img", "corrupt"}
        /\ Len(p) > Len(root)
        /\ \A k \in 1..Len(root) : p[k] = root[k]
        /\ recursive \/ Len(p) = Len(root) + 1
        /\ \E ext \in SevenExtensions : EndsWithIgnoringCase(p[Len(p)], ext) }

\* C6: in a batch the files handed to convert_to_webp are exactly the
\* matching regular files (calls before the batch add only .webp files and
\* the output folder, so the files that match at the scan are those of the
\* filesystem the run started on), in
\* ascending order of path (part by part, as pathlib compares), each once; directories, other files and .webp
\* files are never handed over; an empty match set returns (0, 0.0) with
\* no call.
BatchFilesInOrder ==
    InBatch =>
        /\ {image_files[k] : k \in 1..Len(image_files)}
              = Matching(fs0, bargs.directory, bargs.recursive)
        /\ \A j, k \in 1..Len(image_files) :
              j < k => PathLess(image_files[j], image_files[k])
        /\ \A k \in 1..(Len(calls) - base) :
              calls[base + k].input_path = image_files[k]
        /\ pc = "batch_ret" => Len(calls) - base = Len(image_files)
        /\ \A k \in BatchCallIds :
              /\ ~EndsWithIgnoringCase(Name(calls[k].input_path), WEBP)
              /\ IsFile(fs0, calls[k].input_path)
        /\ image_files = <<>> =>
              pc = "batch_ret" /\ ret = <<0, 0>> /\ Len(calls) = base
        /\ driver = "cli" /\ fs0 = TreeMixed /\ ~bargs.recursive =>
              image_files = <<Join(D, A_jpg), Join(D, A_png), Join(D, S_a_gif)>>
        /\ driver = "cli" /\ fs0 = TreeMixed /\ bargs.recursive =>
              image_files = <<Join(D, A_jpg), Join(D, A_png),
                              Join(SubDir, A_jpg), Join(D, S_a_gif)>>
        /\ driver = "cli" /\ fs0 = TreeThreeAndOne =>
              image_files = <<Join(D, Z_tif), Join(D, A_jpg), Join(D, B_JPG),
                              Join(D, Q_gif)>>

\* a recursive batch over the mixed tree handed over its four files, the
\* one in the subdirectory third
RecursiveBatchHandedAll ==
    /\ driver = "cli"
    /\ pc = "batch_ret"
    /\ fs0 = TreeMixed
    /\ bargs.recursive
    /\ Len(calls) = 4
    /\ calls[3].input_path = Join(SubDir, A_jpg)
    /\ calls[4].input_path = Join(D, S_a_gif)

\* C7 as stated: when the input path does not exist or a single-file input
\* is not a valid image, the run exits with code 1, convert_to_webp is
\* never called, nothing is created and both counters stay 0.
RejectedRunExitsOne ==
    CliDone /\ (InputMissing \/ SingleInvalid) =>
        /\ exit_code = 1
        /\ calls = <<>>
        /\ fs = fs0
        /\ converted_count = 0
        /\ failed_count = 0

\* C7, amended: in those runs convert_to_webp is never called, nothing is
\* created and both counters stay 0; the exit code is 1, or 2 when the
\* argument parser rejects the command line before the path is looked at.
RejectedRunTouchesNothing ==
    /\ driver = "cli" /\ (InputMissing \/ SingleInvalid) =>
          /\ calls = <<>>
          /\ fs = fs0
          /\ converted_count = 0
          /\ failed_count = 0
          /\ ~OutDir \in DOMAIN fs \/ OutDir \in DOMAIN fs0
    /\ CliDone /\ (InputMissing \/ SingleInvalid) =>
          (EndedByMain => exit_code = IF UsageError /\ ~raised THEN 2 ELSE 1)

\* a corrupt single file was rejected with an output folder configured
CorruptSingleFileRejected ==
    /\ CliDone
    /\ SingleInvalid
    /\ ~UsageError
    /\ args.output_folder = OutDir
    /\ exit_code = 1
    /\ ~Exists(fs, OutDir)

\* C9: batch_convert returns the number of files converted during the call,
\* whatever the converter did before, and the sum of their elapsed times.
BatchReturnsItsOwnCount ==
    pc = "batch_ret" =>
        /\ ret[1] = Cardinality({k \in BatchCallIds : Ok(k)})
        /\ ret[2] = SumTimes({k \in BatchCallIds : Ok(k)})

\* C10: in a run of the tool no two input files are written to the same
\* output path, no output path is the input file, and the number of
\* distinct files written equals converted_count.
Written == {calls[i].out : i \in {j \in CallIds : Ok(j)}}

OutputsNeverCollide ==
    driver = "cli" =>
        /\ \A i, j \in CallIds :
              Ok(i) /\ Ok(j) /\ i # j => calls[i].out # calls[j].out
        /\ \A i \in CallIds : Ok(i) => calls[i].out # calls[i].input_path
        /\ pc = "done" /\ ~interrupted /\ ~raised =>
              Cardinality(Written) = converted_count

====
